---------------------------- MODULE Spec2Model ----------------------------
(***************************************************************************)
(* TinyFS (ghostforge/tinyfs/client.py): a filesystem client confined to a *)
(* workspace directory, with a confirmation step before mutations and a    *)
(* bounded audit history.                                                  *)
(*                                                                         *)
(* Strings are sequences of one-character strings, so that str(path),      *)
(* str.startswith, the split of a path at "/" and the newline translation  *)
(* of text-mode files are computed the way the code computes them.  A      *)
(* resolved path (pathlib.Path after resolve()) is the sequence of its     *)
(* segments, each a string.  Optional[T] is a sequence of length 0 (None)  *)
(* or 1.  The filesystem holds directories and regular files and no        *)
(* symbolic links, on a POSIX host (os.sep "/", os.linesep "\n"); callers  *)
(* pass paths as str.                                                      *)
(***************************************************************************)
EXTENDS Integers, Sequences, FiniteSets, TLC

---------------------------------------------------------------------------
(* Bounds of the model *)

\* calls made on one client in the sequential specification
MaxCalls == 2
\* largest configured history_size
MaxCap == 1
\* concurrent callers, and calls each of them makes, in SpecConc
NumThreads == 2
MaxThreadCalls == 2
MaxEdits == 2

---------------------------------------------------------------------------
(* Characters and strings *)

SLASH == "/"
DOT == "."
CR == "CR"
LF == "LF"
\* a byte that is not valid UTF-8
BADBYTE == "xFF"

Min(a, b) == IF a < b THEN a ELSE b
Max(a, b) == IF a > b THEN a ELSE b

\* str.startswith
StartsWith(s, prefix) ==
    /\ Len(prefix) <= Len(s)
    /\ SubSeq(s, 1, Len(prefix)) = prefix

\* list[start:] with Python's rule for a negative start; -0 is 0
PySliceFrom(lst, start) ==
    LET n == Len(lst)
        from == IF start < 0 THEN Max(n + start, 0) ELSE Min(start, n)
    IN  SubSeq(lst, from + 1, n)

\* the segments of a path string: split at "/", empty and "." segments dropped
RECURSIVE SplitFrom(_, _, _)
SplitFrom(s, i, cur) ==
    IF i > Len(s)
    THEN IF cur = <<>> \/ cur = <<DOT>> THEN <<>> ELSE <<cur>>
    ELSE IF s[i] = SLASH
         THEN (IF cur = <<>> \/ cur = <<DOT>> THEN <<>> ELSE <<cur>>)
              \o SplitFrom(s, i + 1, <<>>)
         ELSE SplitFrom(s, i + 1, Append(cur, s[i]))

Parts(s) == SplitFrom(s, 1, <<>>)

\* os.path.isabs
IsAbs(s) == s # <<>> /\ s[1] = SLASH

\* Path.resolve() without symbolic links: ".." drops the segment before it
RECURSIVE Normalize(_, _)
Normalize(done, rest) ==
    IF rest = <<>> THEN done
    ELSE IF Head(rest) = <<DOT, DOT>>
         THEN Normalize(IF done = <<>> THEN <<>> ELSE SubSeq(done, 1, Len(done) - 1),
                        Tail(rest))
         ELSE Normalize(Append(done, Head(rest)), Tail(rest))

\* str(PosixPath) of an absolute path
RECURSIVE JoinAbs(_)
JoinAbs(segs) ==
    IF segs = <<>> THEN <<>> ELSE <<SLASH>> \o Head(segs) \o JoinAbs(Tail(segs))

StrAbs(p) == IF p = <<>> THEN <<SLASH>> ELSE JoinAbs(p)

\* str(PosixPath) of a relative path; the empty relative path is "."
StrRel(segs) == IF segs = <<>> THEN <<DOT>> ELSE Tail(JoinAbs(segs))

Parent(p) == IF p = <<>> THEN <<>> ELSE SubSeq(p, 1, Len(p) - 1)
Name(p) == IF p = <<>> THEN <<>> ELSE p[Len(p)]

\* PurePath.is_relative_to: compares segments
IsRelativeTo(p, base) ==
    /\ Len(base) <= Len(p)
    /\ SubSeq(p, 1, Len(base)) = base

---------------------------------------------------------------------------
(* The filesystem: a function from the absolute paths that exist to nodes *)

DirNode == [kind |-> "dir", data |-> <<>>]
FileNode(bytes) == [kind |-> "file", data |-> bytes]

Exists(f, p) == p \in DOMAIN f
IsDir(f, p) == Exists(f, p) /\ f[p].kind = "dir"
IsFile(f, p) == Exists(f, p) /\ f[p].kind = "file"

Prefixes(p) == {SubSeq(p, 1, n) : n \in 0..Len(p)}

Put(f, p, node) == [q \in DOMAIN f \cup {p} |-> IF q = p THEN node ELSE f[q]]
Remove(f, p) == [q \in DOMAIN f \ {p} |-> f[q]]

Ok == "ok"
OsOut(err, f) == [err |-> err, fs |-> f]

\* Path.mkdir(parents=True) without exist_ok: an existing directory is an error
MkdirParentsNotExistOk(f, p) ==
    IF Exists(f, p) THEN OsOut("FileExistsError", f)
    ELSE IF \E q \in Prefixes(p) : IsFile(f, q) THEN OsOut("NotADirectoryError", f)
    ELSE OsOut(Ok, [q \in DOMAIN f \cup Prefixes(p) |->
                        IF q \in DOMAIN f THEN f[q] ELSE DirNode])

\* Path.mkdir(parents=True, exist_ok=True): os.mkdir fails as a whole when a
\* component of the path is a regular file, before anything is created
MkdirParents(f, p) ==
    IF IsDir(f, p) THEN OsOut(Ok, f)
    ELSE IF IsFile(f, p) THEN OsOut("FileExistsError", f)
    ELSE IF \E q \in Prefixes(p) : IsFile(f, q) THEN OsOut("NotADirectoryError", f)
    ELSE OsOut(Ok, [q \in DOMAIN f \cup Prefixes(p) |->
                        IF q \in DOMAIN f THEN f[q] ELSE DirNode])

\* text-mode write with newline=None: "\n" becomes os.linesep, then UTF-8
LineSep == <<LF>>
RECURSIVE WriteTranslate(_)
WriteTranslate(text) ==
    IF text = <<>> THEN <<>>
    ELSE (IF Head(text) = LF THEN LineSep ELSE <<Head(text)>>)
         \o WriteTranslate(Tail(text))

\* text-mode read with newline=None (universal newlines): "\r\n" and "\r"
\* are returned as "\n"
RECURSIVE ReadTranslate(_)
ReadTranslate(bytes) ==
    IF bytes = <<>> THEN <<>>
    ELSE IF Head(bytes) = CR
         THEN IF Len(bytes) >= 2 /\ bytes[2] = LF
              THEN <<LF>> \o ReadTranslate(Tail(Tail(bytes)))
              ELSE <<LF>> \o ReadTranslate(Tail(bytes))
         ELSE <<Head(bytes)>> \o ReadTranslate(Tail(bytes))

Decodable(bytes) == \A i \in 1..Len(bytes) : bytes[i] # BADBYTE

\* open(p, 'w', encoding='utf-8'): the file is created, or truncated, empty
OpenTruncate(f, p) ==
    IF IsDir(f, p) THEN OsOut("IsADirectoryError", f)
    ELSE IF ~IsDir(f, Parent(p)) THEN OsOut("FileNotFoundError", f)
    ELSE OsOut(Ok, Put(f, p, FileNode(<<>>)))

\* f.write(content) and the close at the end of the with block: the text
\* reaches the file that was opened
WriteClose(f, p, content) ==
    IF IsFile(f, p) THEN Put(f, p, FileNode(WriteTranslate(content))) ELSE f

\* open(p, 'w', encoding='utf-8'); f.write(content), by a single caller
OpenWrite(f, p, content) ==
    LET o == OpenTruncate(f, p)
    IN  IF o.err # Ok THEN o ELSE OsOut(Ok, WriteClose(o.fs, p, content))

\* open(p, 'r', encoding='utf-8'); f.read()
OpenRead(f, p) ==
    IF ~Exists(f, p) THEN [err |-> "FileNotFoundError", text |-> <<>>]
    ELSE IF IsDir(f, p) THEN [err |-> "IsADirectoryError", text |-> <<>>]
    ELSE IF ~Decodable(f[p].data) THEN [err |-> "UnicodeDecodeError", text |-> <<>>]
    ELSE [err |-> Ok, text |-> ReadTranslate(f[p].data)]

\* os.remove
OsRemove(f, p) ==
    IF ~Exists(f, p) THEN OsOut("FileNotFoundError", f)
    ELSE IF IsDir(f, p) THEN OsOut("IsADirectoryError", f)
    ELSE OsOut(Ok, Remove(f, p))

\* os.rename of a regular file on one filesystem: replaces an existing file
OsRename(f, src, dst) ==
    IF src = dst THEN OsOut(Ok, f)
    ELSE IF IsDir(f, dst) THEN OsOut("IsADirectoryError", f)
    ELSE IF ~IsDir(f, Parent(dst)) THEN OsOut("FileNotFoundError", f)
    ELSE OsOut(Ok, Remove(Put(f, dst, f[src]), src))

\* shutil.move that copies to dst and forgets to remove src
ShutilMoveKeepsSource(f, src, dst) ==
    LET real_dst == IF IsDir(f, dst) THEN Append(dst, Name(src)) ELSE dst
    IN  IF IsDir(f, dst) /\ Exists(f, real_dst)
        THEN OsOut("Error", f)
        ELSE IF ~IsDir(f, Parent(real_dst)) THEN OsOut("FileNotFoundError", f)
        ELSE OsOut(Ok, Put(f, real_dst, f[src]))

\* a move that puts the file in the place of dst, a directory dst and all
\* below it included
ShutilMoveReplaces(f, src, dst) ==
    LET kept == {q \in DOMAIN f :
                    q # src /\ ~(Len(q) > Len(dst) /\ IsRelativeTo(q, dst))}
    IN  IF ~IsDir(f, Parent(dst)) THEN OsOut("FileNotFoundError", f)
        ELSE OsOut(Ok, [q \in kept \cup {dst} |-> IF q = dst THEN f[src] ELSE f[q]])

\* shutil.move of a regular file: into dst when dst is a directory
ShutilMove(f, src, dst) ==
    LET real_dst == IF IsDir(f, dst) THEN Append(dst, Name(src)) ELSE dst
    IN  IF IsDir(f, dst) /\ Exists(f, real_dst)
        THEN OsOut("Error", f)
        ELSE OsRename(f, src, real_dst)

\* shutil.copy2 of a regular file: the bytes are copied as they are
ShutilCopy2(f, src, dst) ==
    LET real_dst == IF IsDir(f, dst) THEN Append(dst, Name(src)) ELSE dst
    IN  IF real_dst = src THEN OsOut("SameFileError", f)
        ELSE IF IsDir(f, real_dst) THEN OsOut("IsADirectoryError", f)
        ELSE IF ~IsDir(f, Parent(real_dst)) THEN OsOut("FileNotFoundError", f)
        ELSE OsOut(Ok, Put(f, real_dst, FileNode(f[src].data)))

---------------------------------------------------------------------------
(* The client *)

VARIABLES
    fs,              \* the host's filesystem
    workspace_dir,   \* self.workspace_dir, a resolved path
    auto_confirm,    \* self.auto_confirm
    history_size,    \* self.history_size
    confirm_hook,    \* what _request_confirmation is: as shipped, or patched
    action_history,  \* self.action_history
    calls,           \* the operations called so far, in call order
    last,            \* the last call: its arguments and what it gave
    fs_before,       \* the filesystem when the last call began
    pc,              \* SpecConc: where each caller is in its call
    pending,         \* SpecConc: the record each caller is about to log
    held,            \* SpecConc: is the list a caller loaded still the log
    sliced,          \* SpecConc: the trimmed copy a caller has built
    tcalls,          \* SpecConc: calls each caller has begun
    appended,        \* SpecConc: the records in the order of their appends
    mv,              \* SpecMove: the move_file call in progress, step by step
    returned,        \* the list a caller got from get_history and still holds
    exit_code        \* SpecCli: what the last run of the command line returned

vars == <<fs, workspace_dir, auto_confirm, history_size, confirm_hook,
          action_history, calls, last, fs_before,
          pc, pending, held, sliced, tcalls, appended, mv, returned,
          exit_code>>

clientVars == <<workspace_dir, auto_confirm, history_size, confirm_hook>>
concVars == <<pc, pending, held, sliced, tcalls, appended>>
stepVars == <<mv, returned>>
cliVars == <<exit_code>>

None == <<>>
Some(x) == <<x>>

\* ActionRecord.create: success=True, error_message=None, user_approved=False;
\* the timestamp is the number of the call
ActionRecord(action_type, path, now) ==
    [action_type |-> action_type, timestamp |-> now, path |-> path,
     success |-> TRUE, error_message |-> None, user_approved |-> FALSE]

\* the except branch without action.error_message = str(e)
FailedNoMessage(rec, msg) == [rec EXCEPT !.success = FALSE]
Failed(rec, msg) == [rec EXCEPT !.success = FALSE, !.error_message = Some(msg)]
Succeeded(rec) == [rec EXCEPT !.success = TRUE]

CancelledMessage == <<"Operation cancelled by user">>

\* TinyFSClient._record_action
RecordAction(history, action) ==
    LET appended_ == Append(history, action)
    IN  IF Len(appended_) > history_size
        THEN PySliceFrom(appended_, 0 - history_size)
        ELSE appended_

RECURSIVE RecordAll(_, _)
RecordAll(history, recs) ==
    IF recs = <<>> THEN history
    ELSE RecordAll(RecordAction(history, Head(recs)), Tail(recs))

\* the resolved target of a candidate path given as str
Resolve(path) ==
    IF IsAbs(path) THEN Normalize(<<>>, Parts(path))
    ELSE Normalize(<<>>, workspace_dir \o Parts(path))

\* the containment test of _validate_path: a prefix test on the two strings
InWorkspace(target) == StartsWith(StrAbs(target), StrAbs(workspace_dir))

\* TinyFSClient._validate_path
ValidatePath(f, path, must_exist) ==
    LET target == Resolve(path)
    IN  IF ~InWorkspace(target)
        THEN [err |-> "PathValidationError", target |-> target]
        ELSE IF must_exist /\ ~Exists(f, target)
        THEN [err |-> "FileNotFoundError", target |-> target]
        ELSE [err |-> Ok, target |-> target]

\* Path.relative_to(self.workspace_dir): ValueError unless the segments of the
\* workspace are the first segments of the path
RelativeTo(target) ==
    IF IsRelativeTo(target, workspace_dir)
    THEN [err |-> Ok, rel |-> SubSeq(target, Len(workspace_dir) + 1, Len(target))]
    ELSE [err |-> "ValueError", rel |-> target]

\* TinyFSClient._request_confirmation
\* a confirmation step that declines whenever auto_confirm is off
RequestConfirmationDeclines == auto_confirm

RequestConfirmation ==
    IF auto_confirm THEN TRUE
    ELSE IF confirm_hook = "shipped" THEN TRUE
    ELSE confirm_hook = "patched_true"

\* FileInfo.from_path(path_obj, relative_to=self.workspace_dir)
FileInfoFromPath(f, p) ==
    LET r == RelativeTo(p)
    IN  [name |-> Name(p),
         path |-> IF r.err = Ok THEN StrRel(r.rel) ELSE StrAbs(p),
         is_directory |-> IsDir(f, p),
         size |-> IF IsDir(f, p) THEN None ELSE Some(Len(f[p].data))]

\* Path.rglob('*') in place of Path.iterdir: every descendant
ChildrenRecursive(f, p) == {q \in DOMAIN f : Len(q) > Len(p) /\ IsRelativeTo(q, p)}

\* Path.iterdir
Children(f, p) == {q \in DOMAIN f : Len(q) = Len(p) + 1 /\ Parent(q) = p}

\* what a call gives: the filesystem it leaves, the records it hands to
\* _record_action, the error it raises (or Ok) and the value it returns,
\* and whether it consulted _request_confirmation
Out(f, recs, res, val, asked) ==
    [fs |-> f, recs |-> recs, res |-> res, val |-> val, asked |-> asked]

\* the confirmation block of the mutating operations:
\*   if confirm and not self.auto_confirm: confirmed = self._request_confirmation(..)
Gate(confirm) ==
    IF confirm /\ ~auto_confirm
    THEN [asked |-> TRUE, confirmed |-> RequestConfirmation]
    ELSE [asked |-> FALSE, confirmed |-> TRUE]

\* action.user_approved = confirmed outside the confirmation branch
ApprovedAlways(rec, gate) == [rec EXCEPT !.user_approved = gate.confirmed]

Approved(rec, gate) ==
    IF gate.asked THEN [rec EXCEPT !.user_approved = gate.confirmed] ELSE rec

\* the cancellation branch without action.success = False and the message
CancelledLogsSuccess(f, rec) ==
    Out(f, <<rec>>, "OperationCancelledError", None, TRUE)

Cancelled(f, rec) ==
    Out(f, <<Failed(rec, CancelledMessage)>>, "OperationCancelledError", None, TRUE)

\* TinyFSClient.read_file
ReadFileBody(f, path, now) ==
    LET v == ValidatePath(f, path, TRUE)
        r == RelativeTo(v.target)
        action == ActionRecord("READ", StrRel(r.rel), now)
        rd == OpenRead(f, v.target)
    IN  IF v.err # Ok THEN Out(f, <<>>, v.err, None, FALSE)
        ELSE IF IsDir(f, v.target) THEN Out(f, <<>>, "IsADirectoryError", None, FALSE)
        ELSE IF r.err # Ok THEN Out(f, <<>>, r.err, None, FALSE)
        ELSE IF rd.err # Ok THEN Out(f, <<Failed(action, <<rd.err>>)>>, rd.err, None, FALSE)
        ELSE Out(f, <<Succeeded(action)>>, Ok, Some(rd.text), FALSE)

\* write_file without the creation of the parent directories
WriteFileBodyNoMkdir(f, path, content, confirm, now) ==
    LET v == ValidatePath(f, path, FALSE)
        r == RelativeTo(v.target)
        gate == Gate(confirm)
        action == Approved(ActionRecord("WRITE", StrRel(r.rel), now), gate)
        wr == OpenWrite(f, v.target, content)
    IN  IF v.err # Ok THEN Out(f, <<>>, v.err, None, FALSE)
        ELSE IF r.err # Ok THEN Out(f, <<>>, r.err, None, FALSE)
        ELSE IF ~gate.confirmed THEN Cancelled(f, action)
        ELSE IF wr.err # Ok
        THEN Out(wr.fs, <<Failed(action, <<wr.err>>)>>, wr.err, None, gate.asked)
        ELSE Out(wr.fs, <<Succeeded(action)>>, Ok, Some(TRUE), gate.asked)

\* TinyFSClient.write_file
WriteFileBody(f, path, content, confirm, now) ==
    LET v == ValidatePath(f, path, FALSE)
        mk == MkdirParents(f, Parent(v.target))
        r == RelativeTo(v.target)
        gate == Gate(confirm)
        action == Approved(ActionRecord("WRITE", StrRel(r.rel), now), gate)
        wr == OpenWrite(mk.fs, v.target, content)
    IN  IF v.err # Ok THEN Out(f, <<>>, v.err, None, FALSE)
        ELSE IF mk.err # Ok THEN Out(mk.fs, <<>>, mk.err, None, FALSE)
        ELSE IF r.err # Ok THEN Out(mk.fs, <<>>, r.err, None, FALSE)
        ELSE IF ~gate.confirmed THEN Cancelled(mk.fs, action)
        ELSE IF wr.err # Ok
        THEN Out(wr.fs, <<Failed(action, <<wr.err>>)>>, wr.err, None, gate.asked)
        ELSE Out(wr.fs, <<Succeeded(action)>>, Ok, Some(TRUE), gate.asked)

\* TinyFSClient.list_directory
ListDirectoryBody(f, path, now) ==
    LET v == ValidatePath(f, path, TRUE)
        r == RelativeTo(v.target)
        action == ActionRecord("READ", StrRel(r.rel), now)
    IN  IF v.err # Ok THEN Out(f, <<>>, v.err, None, FALSE)
        ELSE IF ~IsDir(f, v.target) THEN Out(f, <<>>, "NotADirectoryError", None, FALSE)
        ELSE IF r.err # Ok THEN Out(f, <<>>, r.err, None, FALSE)
        ELSE Out(f, <<Succeeded(action)>>, Ok,
                 Some({FileInfoFromPath(f, q) : q \in Children(f, v.target)}), FALSE)

\* TinyFSClient.create_directory
CreateDirectoryBody(f, path, confirm, now) ==
    LET v == ValidatePath(f, path, FALSE)
        r == RelativeTo(v.target)
        gate == Gate(confirm)
        action == Approved(ActionRecord("WRITE", StrRel(r.rel), now), gate)
        mk == MkdirParents(f, v.target)
    IN  IF v.err # Ok THEN Out(f, <<>>, v.err, None, FALSE)
        ELSE IF r.err # Ok THEN Out(f, <<>>, r.err, None, FALSE)
        ELSE IF ~gate.confirmed THEN Cancelled(f, action)
        ELSE IF mk.err # Ok
        THEN Out(mk.fs, <<Failed(action, <<mk.err>>)>>, mk.err, None, gate.asked)
        ELSE Out(mk.fs, <<Succeeded(action)>>, Ok, Some(TRUE), gate.asked)

\* delete_file without the is_dir check and with shutil.rmtree for directories
DeleteFileBodyRemovesTree(f, path, confirm, now) ==
    LET v == ValidatePath(f, path, TRUE)
        r == RelativeTo(v.target)
        gate == Gate(confirm)
        action == Approved(ActionRecord("WRITE", StrRel(r.rel), now), gate)
        rm == [q \in {x \in DOMAIN f : ~IsRelativeTo(x, v.target)} |-> f[q]]
    IN  IF v.err # Ok THEN Out(f, <<>>, v.err, None, FALSE)
        ELSE IF r.err # Ok THEN Out(f, <<>>, r.err, None, FALSE)
        ELSE IF ~gate.confirmed THEN Cancelled(f, action)
        ELSE Out(rm, <<Succeeded(action)>>, Ok, Some(TRUE), gate.asked)

\* TinyFSClient.delete_file
DeleteFileBody(f, path, confirm, now) ==
    LET v == ValidatePath(f, path, TRUE)
        r == RelativeTo(v.target)
        gate == Gate(confirm)
        action == Approved(ActionRecord("WRITE", StrRel(r.rel), now), gate)
        rm == OsRemove(f, v.target)
    IN  IF v.err # Ok THEN Out(f, <<>>, v.err, None, FALSE)
        ELSE IF IsDir(f, v.target) THEN Out(f, <<>>, "IsADirectoryError", None, FALSE)
        ELSE IF r.err # Ok THEN Out(f, <<>>, r.err, None, FALSE)
        ELSE IF ~gate.confirmed THEN Cancelled(f, action)
        ELSE IF rm.err # Ok
        THEN Out(rm.fs, <<Failed(action, <<rm.err>>)>>, rm.err, None, gate.asked)
        ELSE Out(rm.fs, <<Succeeded(action)>>, Ok, Some(TRUE), gate.asked)

\* the record path of a move or copy with the two sides exchanged
ArrowPathReversed(rel_src, rel_dest) ==
    StrRel(rel_dest) \o <<" ", "-", ">", " ">> \o StrRel(rel_src)

\* the "<rel_src> -> <rel_dest>" path of a move or copy record
ArrowPath(rel_src, rel_dest) ==
    StrRel(rel_src) \o <<" ", "-", ">", " ">> \o StrRel(rel_dest)

\* the common part of move_file and copy_file; transfer is shutil.move or
\* shutil.copy2, applied after the destination's parents are created
\* the destination's parents made before the two paths are validated
TransferBodyMkdirFirst(f, source, destination, confirm, now, is_move) ==
    LET vs == ValidatePath(f, source, TRUE)
        vd == ValidatePath(f, destination, FALSE)
        rs == RelativeTo(vs.target)
        rd == RelativeTo(vd.target)
        gate == Gate(confirm)
        action == Approved(ActionRecord("WRITE", ArrowPath(rs.rel, rd.rel), now), gate)
        mk == MkdirParents(f, Parent(Resolve(destination)))
        tr == IF is_move THEN ShutilMove(mk.fs, vs.target, vd.target)
              ELSE ShutilCopy2(mk.fs, vs.target, vd.target)
    IN  IF vs.err # Ok THEN Out(mk.fs, <<>>, vs.err, None, FALSE)
        ELSE IF vd.err # Ok THEN Out(mk.fs, <<>>, vd.err, None, FALSE)
        ELSE IF IsDir(f, vs.target) THEN Out(mk.fs, <<>>, "IsADirectoryError", None, FALSE)
        ELSE IF rs.err # Ok THEN Out(mk.fs, <<>>, rs.err, None, FALSE)
        ELSE IF rd.err # Ok THEN Out(mk.fs, <<>>, rd.err, None, FALSE)
        ELSE IF ~gate.confirmed THEN Cancelled(mk.fs, action)
        ELSE IF mk.err # Ok
        THEN Out(mk.fs, <<Failed(action, <<mk.err>>)>>, mk.err, None, gate.asked)
        ELSE IF tr.err # Ok
        THEN Out(tr.fs, <<Failed(action, <<tr.err>>)>>, tr.err, None, gate.asked)
        ELSE Out(tr.fs, <<Succeeded(action)>>, Ok, Some(TRUE), gate.asked)

TransferBody(f, source, destination, confirm, now, is_move) ==
    LET vs == ValidatePath(f, source, TRUE)
        vd == ValidatePath(f, destination, FALSE)
        rs == RelativeTo(vs.target)
        rd == RelativeTo(vd.target)
        gate == Gate(confirm)
        action == Approved(ActionRecord("WRITE", ArrowPath(rs.rel, rd.rel), now), gate)
        mk == MkdirParents(f, Parent(vd.target))
        tr == IF is_move THEN ShutilMove(mk.fs, vs.target, vd.target)
              ELSE ShutilCopy2(mk.fs, vs.target, vd.target)
    IN  IF vs.err # Ok THEN Out(f, <<>>, vs.err, None, FALSE)
        ELSE IF vd.err # Ok THEN Out(f, <<>>, vd.err, None, FALSE)
        ELSE IF IsDir(f, vs.target) THEN Out(f, <<>>, "IsADirectoryError", None, FALSE)
        ELSE IF rs.err # Ok THEN Out(f, <<>>, rs.err, None, FALSE)
        ELSE IF rd.err # Ok THEN Out(f, <<>>, rd.err, None, FALSE)
        ELSE IF ~gate.confirmed THEN Cancelled(f, action)
        ELSE IF mk.err # Ok
        THEN Out(mk.fs, <<Failed(action, <<mk.err>>)>>, mk.err, None, gate.asked)
        ELSE IF tr.err # Ok
        THEN Out(tr.fs, <<Failed(action, <<tr.err>>)>>, tr.err, None, gate.asked)
        ELSE Out(tr.fs, <<Succeeded(action)>>, Ok, Some(TRUE), gate.asked)

\* TinyFSClient.move_file
MoveFileBody(f, source, destination, confirm, now) ==
    TransferBody(f, source, destination, confirm, now, TRUE)

\* TinyFSClient.copy_file
CopyFileBody(f, source, destination, confirm, now) ==
    TransferBody(f, source, destination, confirm, now, FALSE)

\* TinyFSClient.file_exists
\* a file_exists that logs a READ record of its probe
FileExistsBodyLogged(f, path) ==
    LET v == ValidatePath(f, path, FALSE)
        action == ActionRecord("READ", path, 0)
    IN  IF v.err = "PathValidationError" THEN Out(f, <<action>>, Ok, Some(FALSE), FALSE)
        ELSE Out(f, <<action>>, Ok, Some(IsFile(f, v.target)), FALSE)

FileExistsBody(f, path) ==
    LET v == ValidatePath(f, path, FALSE)
    IN  IF v.err = "PathValidationError" THEN Out(f, <<>>, Ok, Some(FALSE), FALSE)
        ELSE Out(f, <<>>, Ok, Some(IsFile(f, v.target)), FALSE)

\* TinyFSClient.directory_exists
DirectoryExistsBody(f, path) ==
    LET v == ValidatePath(f, path, FALSE)
    IN  IF v.err = "PathValidationError" THEN Out(f, <<>>, Ok, Some(FALSE), FALSE)
        ELSE Out(f, <<>>, Ok, Some(IsDir(f, v.target)), FALSE)

\* TinyFSClient.get_file_info: None for SecurityError and FileNotFoundError
GetFileInfoBody(f, path) ==
    LET v == ValidatePath(f, path, TRUE)
    IN  IF v.err # Ok THEN Out(f, <<>>, Ok, None, FALSE)
        ELSE Out(f, <<>>, Ok, Some(FileInfoFromPath(f, v.target)), FALSE)

\* TinyFSClient.get_history: a copy of the list
GetHistory == action_history

\* a list object in the hands of a caller: its items, and whether it is the
\* very object self.action_history refers to
NoList == [held |-> FALSE, items |-> <<>>, shared |-> FALSE, edits |-> 0]

\* get_history that returns self.action_history itself
GetHistoryAliased ==
    [held |-> TRUE, items |-> action_history, shared |-> TRUE, edits |-> 0]

\* the object get_history returns: self.action_history.copy() is a new list
GetHistoryList ==
    [held |-> TRUE, items |-> GetHistory, shared |-> FALSE, edits |-> 0]

\* what _record_action does to a list a caller holds: append works in place,
\* on the object the caller holds too if it is the history; the trimming
\* assignment binds self.action_history to a new object
RECURSIVE ReturnedAfter(_, _)
ReturnedAfter(ret, recs) ==
    IF recs = <<>> \/ ~ret.shared THEN ret
    ELSE LET grown == Append(ret.items, Head(recs))
         IN  ReturnedAfter([ret EXCEPT !.items = grown,
                                       !.shared = ~(Len(grown) > history_size)],
                           Tail(recs))

---------------------------------------------------------------------------
(* Inputs *)

\* the workspace_dir argument of the constructor: "/w"
WorkspaceArg == <<SLASH, "w">>

\* candidate paths: "a", "a/b", "c", ".", "../e" (traversal out of the
\* workspace) and "/wx/b" (absolute, under a sibling whose name starts like
\* the root's)
PathA == <<"a">>
PathAB == <<"a", SLASH, "b">>
PathC == <<"c">>
PathDot == <<DOT>>
PathUp == <<DOT, DOT, SLASH, "e">>
PathSibling == <<SLASH, "w", "x", SLASH, "b">>
Paths == {PathA, PathAB, PathC, PathDot, PathUp, PathSibling}

\* contents: "", "h" and "\r"
Texts == {<<>>, <<"h">>, <<CR>>}

AbsRoot == <<>>
\* a path of one segment below the root of the host
Seg(name) == <<name>>
OutsideFile == Seg(<<"e">>)
SiblingDir == Seg(<<"w", "x">>)

\* what the host holds before the client is constructed: nothing; a file in
\* the workspace, a file outside and a sibling directory with a file; a
\* directory in the workspace holding a file that is not UTF-8
Environments ==
    { [p \in {AbsRoot} |-> DirNode],
      (<<>> :> DirNode) @@ (<<<<"w">>>> :> DirNode)
          @@ (<<<<"w">>, <<"a">>>> :> FileNode(<<"h">>))
          @@ (OutsideFile :> FileNode(<<"s">>))
          @@ (SiblingDir :> DirNode)
          @@ (Append(SiblingDir, <<"b">>) :> FileNode(<<"s">>)),
      (<<>> :> DirNode) @@ (<<<<"w">>>> :> DirNode)
          @@ (<<<<"w">>, <<"a">>>> :> DirNode)
          @@ (<<<<"w">>, <<"a">>, <<"b">>>> :> FileNode(<<BADBYTE>>)) }

Hooks == {"shipped", "patched_true", "patched_false"}
Capacities == 0..MaxCap
Threads == 1..NumThreads

NoCall ==
    [op |-> "none", path |-> None, dest |-> None, content |-> None,
     confirm |-> FALSE, res |-> Ok, val |-> None, recs |-> <<>>, asked |-> FALSE]

\* no move_file call is in progress
NoMove ==
    [phase |-> "idle", source |-> None, destination |-> None, confirm |-> FALSE,
     src |-> <<>>, dst |-> <<>>, k |-> <<>>, action |-> None, asked |-> FALSE,
     fs0 |-> <<>>]

\* TinyFSClient.__init__: the workspace is resolved and created if absent
InitWith(envs) ==
    /\ workspace_dir = Normalize(<<>>, Parts(WorkspaceArg))
    /\ \E env \in envs : fs = MkdirParents(env, workspace_dir).fs
    /\ auto_confirm \in BOOLEAN
    /\ history_size \in Capacities
    /\ confirm_hook \in Hooks
    /\ action_history = <<>>
    /\ calls = <<>>
    /\ last = NoCall
    /\ fs_before = fs
    /\ pc = [t \in Threads |-> "idle"]
    /\ pending = [t \in Threads |-> None]
    /\ held = [t \in Threads |-> FALSE]
    /\ sliced = [t \in Threads |-> <<>>]
    /\ tcalls = [t \in Threads |-> 0]
    /\ appended = <<>>
    /\ mv = NoMove
    /\ returned = NoList
    /\ exit_code = None

Init == InitWith(Environments)

Now == Len(calls) + 1

\* one call by a single caller, from entry to return or raise
Call(op, path, dest, content, confirm, body) ==
    /\ Len(calls) < MaxCalls
    /\ \E out \in {body} :
        /\ fs' = out.fs
        /\ action_history' = RecordAll(action_history, out.recs)
        /\ returned' = ReturnedAfter(returned, out.recs)
        /\ last' = [op |-> op, path |-> Some(path), dest |-> dest,
                    content |-> content, confirm |-> confirm, res |-> out.res,
                    val |-> out.val, recs |-> out.recs, asked |-> out.asked]
    /\ calls' = Append(calls, op)
    /\ fs_before' = fs
    /\ UNCHANGED <<clientVars, concVars, cliVars, mv>>

ReadFile(path) ==
    Call("read_file", path, None, None, FALSE, ReadFileBody(fs, path, Now))

WriteFile(path, content, confirm) ==
    Call("write_file", path, None, Some(content), confirm,
         WriteFileBody(fs, path, content, confirm, Now))

ListDirectory(path) ==
    Call("list_directory", path, None, None, FALSE, ListDirectoryBody(fs, path, Now))

CreateDirectory(path, confirm) ==
    Call("create_directory", path, None, None, confirm,
         CreateDirectoryBody(fs, path, confirm, Now))

DeleteFile(path, confirm) ==
    Call("delete_file", path, None, None, confirm,
         DeleteFileBody(fs, path, confirm, Now))

MoveFile(source, destination, confirm) ==
    Call("move_file", source, Some(destination), None, confirm,
         MoveFileBody(fs, source, destination, confirm, Now))

CopyFile(source, destination, confirm) ==
    Call("copy_file", source, Some(destination), None, confirm,
         CopyFileBody(fs, source, destination, confirm, Now))

FileExists(path) ==
    Call("file_exists", path, None, None, FALSE, FileExistsBody(fs, path))

DirectoryExists(path) ==
    Call("directory_exists", path, None, None, FALSE, DirectoryExistsBody(fs, path))

GetFileInfo(path) ==
    Call("get_file_info", path, None, None, FALSE, GetFileInfoBody(fs, path))

Next ==
    \/ \E path \in Paths : ReadFile(path)
    \/ \E path \in Paths, content \in Texts, confirm \in BOOLEAN :
            WriteFile(path, content, confirm)
    \/ \E path \in Paths : ListDirectory(path)
    \/ \E path \in Paths, confirm \in BOOLEAN : CreateDirectory(path, confirm)
    \/ \E path \in Paths, confirm \in BOOLEAN : DeleteFile(path, confirm)
    \/ \E source \in Paths, destination \in Paths, confirm \in BOOLEAN :
            MoveFile(source, destination, confirm)
    \/ \E source \in Paths, destination \in Paths, confirm \in BOOLEAN :
            CopyFile(source, destination, confirm)
    \/ \E path \in Paths : FileExists(path)
    \/ \E path \in Paths : DirectoryExists(path)
    \/ \E path \in Paths : GetFileInfo(path)

Spec == Init /\ [][Next]_vars

---------------------------------------------------------------------------
(* Concurrent callers of one client.  No method holds a lock, so another   *)
(* caller may run between any two statements of a call that touch the      *)
(* filesystem, the clock or the history.  In write_file these are the      *)
(* mkdir of the parents, the creation of the record, open (which leaves    *)
(* the file empty) and write with close; in create_directory the creation  *)
(* of the record and mkdir; in _record_action                              *)
(*     self.action_history.append(action)                                  *)
(*     if len(self.action_history) > self.history_size:                    *)
(*         self.action_history = self.action_history[-self.history_size:]  *)
(* the load of the list, the append, the length test, the slice and the    *)
(* assignment.                                                             *)

\* the calls the concurrent callers make, both with confirm=False
ConcWrite == [path |-> PathA, content |-> <<"h">>]
ConcMkdir == [path |-> PathDot]

\* a caller enters write_file or create_directory: _validate_path
TBegin(t) ==
    /\ pc[t] = "idle"
    /\ tcalls[t] < MaxThreadCalls
    /\ \E call \in {"write_file", "create_directory"} :
        LET path == IF call = "write_file" THEN ConcWrite.path ELSE ConcMkdir.path
            v == ValidatePath(fs, path, FALSE)
        IN  pc' = [pc EXCEPT ![t] = IF v.err # Ok THEN "idle"
                                    ELSE IF call = "write_file" THEN "w_mkparent"
                                    ELSE "d_create"]
    /\ tcalls' = [tcalls EXCEPT ![t] = @ + 1]
    /\ UNCHANGED <<fs, clientVars, action_history, calls, last, fs_before,
                   pending, held, sliced, appended, stepVars, cliVars>>

\* write_file: validated_path.parent.mkdir(parents=True, exist_ok=True),
\* whose error leaves the call before any record
TMkParent(t) ==
    /\ pc[t] = "w_mkparent"
    /\ LET mk == MkdirParents(fs, Parent(Resolve(ConcWrite.path)))
       IN  /\ fs' = mk.fs
           /\ pc' = [pc EXCEPT ![t] = IF mk.err # Ok THEN "idle" ELSE "w_create"]
    /\ UNCHANGED <<clientVars, action_history, calls, last, fs_before,
                   pending, held, sliced, tcalls, appended, stepVars, cliVars>>

\* relative_to and ActionRecord.create, which reads the clock; the
\* confirmation branch is skipped with confirm=False
TCreate(t) ==
    /\ pc[t] \in {"w_create", "d_create"}
    /\ LET path == IF pc[t] = "w_create" THEN ConcWrite.path ELSE ConcMkdir.path
           r == RelativeTo(Resolve(path))
       IN  IF r.err # Ok
           THEN /\ pc' = [pc EXCEPT ![t] = "idle"]
                /\ UNCHANGED pending
           ELSE /\ pending' = [pending EXCEPT
                                 ![t] = Some(ActionRecord("WRITE", StrRel(r.rel), Now))]
                /\ pc' = [pc EXCEPT ![t] = IF pc[t] = "w_create" THEN "w_open"
                                            ELSE "d_mkdir"]
    /\ calls' = Append(calls, "call")
    /\ UNCHANGED <<fs, clientVars, action_history, last, fs_before, held,
                   sliced, tcalls, appended, stepVars, cliVars>>

\* write_file: open(validated_path, 'w'); an error goes to the except branch
TOpen(t) ==
    /\ pc[t] = "w_open"
    /\ LET o == OpenTruncate(fs, Resolve(ConcWrite.path))
       IN  /\ fs' = o.fs
           /\ IF o.err # Ok
              THEN /\ pending' = [pending EXCEPT
                                    ![t] = Some(Failed(pending[t][1], <<o.err>>))]
                   /\ pc' = [pc EXCEPT ![t] = "load"]
              ELSE /\ UNCHANGED pending
                   /\ pc' = [pc EXCEPT ![t] = "w_write"]
    /\ UNCHANGED <<clientVars, action_history, calls, last, fs_before, held,
                   sliced, tcalls, appended, stepVars, cliVars>>

\* write_file: f.write(content), the close, action.success = True
TWrite(t) ==
    /\ pc[t] = "w_write"
    /\ fs' = WriteClose(fs, Resolve(ConcWrite.path), ConcWrite.content)
    /\ pending' = [pending EXCEPT ![t] = Some(Succeeded(pending[t][1]))]
    /\ pc' = [pc EXCEPT ![t] = "load"]
    /\ UNCHANGED <<clientVars, action_history, calls, last, fs_before, held,
                   sliced, tcalls, appended, stepVars, cliVars>>

\* create_directory: validated_path.mkdir(parents=True, exist_ok=True) and
\* action.success = True, or the except branch
TMkdir(t) ==
    /\ pc[t] = "d_mkdir"
    /\ LET mk == MkdirParents(fs, Resolve(ConcMkdir.path))
       IN  /\ fs' = mk.fs
           /\ pending' = [pending EXCEPT
                            ![t] = Some(IF mk.err # Ok
                                        THEN Failed(pending[t][1], <<mk.err>>)
                                        ELSE Succeeded(pending[t][1]))]
    /\ pc' = [pc EXCEPT ![t] = "load"]
    /\ UNCHANGED <<clientVars, action_history, calls, last, fs_before, held,
                   sliced, tcalls, appended, stepVars, cliVars>>

\* self.action_history is evaluated: the caller holds the list
TLoad(t) ==
    /\ pc[t] = "load"
    /\ held' = [held EXCEPT ![t] = TRUE]
    /\ pc' = [pc EXCEPT ![t] = "append"]
    /\ UNCHANGED <<fs, clientVars, action_history, calls, last, fs_before,
                   pending, sliced, tcalls, appended, stepVars, cliVars>>

\* .append(action) on the list held; a list that was replaced meanwhile is
\* not the history any more
TAppend(t) ==
    /\ pc[t] = "append"
    /\ action_history' = IF held[t] THEN Append(action_history, pending[t][1])
                         ELSE action_history
    /\ appended' = Append(appended, pending[t][1])
    /\ held' = [held EXCEPT ![t] = FALSE]
    /\ pending' = [pending EXCEPT ![t] = None]
    /\ pc' = [pc EXCEPT ![t] = "len"]
    /\ UNCHANGED <<fs, clientVars, calls, last, fs_before, sliced, tcalls,
                   stepVars, cliVars>>

\* if len(self.action_history) > self.history_size
TLen(t) ==
    /\ pc[t] = "len"
    /\ pc' = [pc EXCEPT ![t] = IF Len(action_history) > history_size
                                THEN "slice" ELSE "idle"]
    /\ UNCHANGED <<fs, clientVars, action_history, calls, last, fs_before,
                   pending, held, sliced, tcalls, appended, stepVars, cliVars>>

\* self.action_history[-self.history_size:] builds a new list
TSlice(t) ==
    /\ pc[t] = "slice"
    /\ sliced' = [sliced EXCEPT ![t] = PySliceFrom(action_history, 0 - history_size)]
    /\ pc' = [pc EXCEPT ![t] = "store"]
    /\ UNCHANGED <<fs, clientVars, action_history, calls, last, fs_before,
                   pending, held, tcalls, appended, stepVars, cliVars>>

\* self.action_history = <the new list>: lists held by others are stale now
TStore(t) ==
    /\ pc[t] = "store"
    /\ action_history' = sliced[t]
    /\ held' = [u \in Threads |-> FALSE]
    /\ sliced' = [sliced EXCEPT ![t] = <<>>]
    /\ pc' = [pc EXCEPT ![t] = "idle"]
    /\ UNCHANGED <<fs, clientVars, calls, last, fs_before, pending, tcalls,
                   appended, stepVars, cliVars>>

\* a caller that is in no operation calls get_history: list.copy() is one
\* step of the interpreter, taken wherever the other callers stand
TGetHistory(t) ==
    /\ pc[t] = "idle"
    /\ returned' = GetHistoryList
    /\ UNCHANGED <<fs, clientVars, action_history, calls, last, fs_before,
                   concVars, cliVars, mv>>

NextConc ==
    \E t \in Threads :
        \/ TBegin(t)
        \/ TMkParent(t)
        \/ TCreate(t)
        \/ TOpen(t)
        \/ TWrite(t)
        \/ TMkdir(t)
        \/ TLoad(t)
        \/ TAppend(t)
        \/ TLen(t)
        \/ TSlice(t)
        \/ TStore(t)
        \/ TGetHistory(t)

\* capacity 0 is left to the sequential specification
InitConc == Init /\ history_size >= 1

SpecConc == InitConc /\ [][NextConc]_vars

---------------------------------------------------------------------------
(* move_file step by step.  After its checks the call runs                  *)
(*     dest_path.parent.mkdir(parents=True, exist_ok=True)                  *)
(*     shutil.move(src_path, dest_path)                                     *)
(* and shutil.move is os.rename, one atomic step, or, when os.rename raises *)
(* OSError because the two paths are on different devices, copy2 followed   *)
(* by os.unlink of the source.  The copy opens the destination for writing  *)
(* and fills it chunk by chunk; it may fail at any point.                   *)

MoveSteps == {"rename", "open", "copy", "unlink", "return"}
MoveEnded == {"idle", "returned", "raised"}

\* move_file up to the call of os.rename: the validations, the record, the
\* confirmation, the parents of the destination and shutil.move's choice of
\* the real destination
MoveStart(f, source, destination, confirm, now) ==
    LET vs == ValidatePath(f, source, TRUE)
        vd == ValidatePath(f, destination, FALSE)
        rs == RelativeTo(vs.target)
        rd == RelativeTo(vd.target)
        gate == Gate(confirm)
        action == Approved(ActionRecord("WRITE", ArrowPath(rs.rel, rd.rel), now), gate)
        mk == MkdirParents(f, Parent(vd.target))
        real_dst == IF IsDir(mk.fs, vd.target)
                    THEN Append(vd.target, Name(vs.target)) ELSE vd.target
    IN  [ready |-> /\ vs.err = Ok /\ vd.err = Ok
                   /\ ~IsDir(f, vs.target)
                   /\ rs.err = Ok /\ rd.err = Ok
                   /\ gate.confirmed
                   /\ mk.err = Ok
                   /\ ~(IsDir(mk.fs, vd.target) /\ Exists(mk.fs, real_dst)),
         src |-> vs.target, dst |-> real_dst, fs |-> mk.fs,
         action |-> action, asked |-> gate.asked]

\* a move_file call that ends before os.rename is reached
MvRefused(source, destination, confirm) ==
    /\ mv.phase \in MoveEnded
    /\ Len(calls) < MaxCalls
    /\ ~MoveStart(fs, source, destination, confirm, Now).ready
    /\ MoveFile(source, destination, confirm)

\* a move_file call reaches os.rename
MvBegin(source, destination, confirm) ==
    /\ mv.phase \in MoveEnded
    /\ Len(calls) < MaxCalls
    /\ \E st \in {MoveStart(fs, source, destination, confirm, Now)} :
        /\ st.ready
        /\ fs' = st.fs
        /\ mv' = [phase |-> "rename", source |-> Some(source),
                  destination |-> Some(destination), confirm |-> confirm,
                  src |-> st.src, dst |-> st.dst, k |-> fs[st.src].data,
                  action |-> Some(st.action), asked |-> st.asked, fs0 |-> fs]
    /\ UNCHANGED <<clientVars, action_history, calls, last, fs_before, concVars, cliVars,
                   returned>>

\* os.rename succeeds: one atomic step
MvRename ==
    /\ mv.phase = "rename"
    /\ fs' = OsRename(fs, mv.src, mv.dst).fs
    /\ mv' = [mv EXCEPT !.phase = "return"]
    /\ UNCHANGED <<clientVars, action_history, calls, last, fs_before, concVars, cliVars,
                   returned>>

\* os.rename raises OSError (the destination is on another device, the
\* device is read-only): nothing has changed and shutil.move falls back to
\* copy2 and os.unlink, whatever the two paths are
MvRenameCrossDevice ==
    /\ mv.phase = "rename"
    /\ mv' = [mv EXCEPT !.phase = "open"]
    /\ UNCHANGED <<fs, clientVars, action_history, calls, last, fs_before,
                   concVars, cliVars, returned>>

\* copyfile opens the destination with 'wb' and unlinks the source at once
MvOpenUnlinksFirst ==
    /\ mv.phase = "open"
    /\ mv.src # mv.dst
    /\ fs' = Remove(Put(fs, mv.dst, FileNode(<<>>)), mv.src)
    /\ mv' = [mv EXCEPT !.phase = "copy"]
    /\ UNCHANGED <<clientVars, action_history, calls, last, fs_before, concVars, cliVars,
                   returned>>

\* copyfile opens the destination with 'wb': it exists and is empty
MvOpen ==
    /\ mv.phase = "open"
    /\ mv.src # mv.dst
    /\ fs' = Put(fs, mv.dst, FileNode(<<>>))
    /\ mv' = [mv EXCEPT !.phase = "copy"]
    /\ UNCHANGED <<clientVars, action_history, calls, last, fs_before, concVars, cliVars,
                   returned>>

\* copyfile writes the next chunk of the source to the destination
MvCopyChunk ==
    /\ mv.phase = "copy"
    /\ IsFile(fs, mv.src)
    /\ Len(fs[mv.dst].data) < Len(fs[mv.src].data)
    /\ fs' = Put(fs, mv.dst,
                 FileNode(Append(fs[mv.dst].data,
                                 fs[mv.src].data[Len(fs[mv.dst].data) + 1])))
    /\ UNCHANGED <<clientVars, action_history, calls, last, fs_before, concVars, cliVars,
                   mv, returned>>

\* the source is exhausted: copyfile closes both files, copy2 copies the stat
MvCopyStat ==
    /\ mv.phase = "copy"
    /\ IsFile(fs, mv.src)
    /\ Len(fs[mv.dst].data) = Len(fs[mv.src].data)
    /\ mv' = [mv EXCEPT !.phase = "unlink"]
    /\ UNCHANGED <<fs, clientVars, action_history, calls, last, fs_before,
                   concVars, cliVars, returned>>

\* os.unlink(src)
MvUnlink ==
    /\ mv.phase = "unlink"
    /\ fs' = Remove(fs, mv.src)
    /\ mv' = [mv EXCEPT !.phase = "return"]
    /\ UNCHANGED <<clientVars, action_history, calls, last, fs_before, concVars, cliVars,
                   returned>>

\* how a stepwise move_file call ends: the finally block records the action
MvEnd(phase, rec, res, val) ==
    /\ action_history' = RecordAction(action_history, rec)
    /\ returned' = ReturnedAfter(returned, <<rec>>)
    /\ last' = [op |-> "move_file", path |-> mv.source, dest |-> mv.destination,
                content |-> None, confirm |-> mv.confirm, res |-> res,
                val |-> val, recs |-> <<rec>>, asked |-> mv.asked]
    /\ calls' = Append(calls, "move_file")
    /\ fs_before' = mv.fs0
    /\ mv' = [mv EXCEPT !.phase = phase]
    /\ UNCHANGED <<fs, clientVars, concVars, cliVars>>

\* copyfile finds source and destination to be the same file and raises
\* SameFileError before it opens anything: the except block marks the record
\* failed and re-raises
MvSameFile ==
    /\ mv.phase = "open"
    /\ mv.src = mv.dst
    /\ MvEnd("raised", Failed(mv.action[1], <<"SameFileError">>), "SameFileError", None)

\* the copy raises OSError part-way (the device is full, the file is taken
\* away): the except block marks the record failed and re-raises
MvCopyFails ==
    /\ mv.phase \in {"open", "copy"}
    /\ mv.src # mv.dst
    /\ MvEnd("raised", Failed(mv.action[1], <<"OSError">>), "OSError", None)

\* os.unlink(src) raises OSError (the source's device is read-only, the
\* source is busy): the source and the complete destination both stay, the
\* except block marks the record failed and re-raises
MvUnlinkFails ==
    /\ mv.phase = "unlink"
    /\ MvEnd("raised", Failed(mv.action[1], <<"OSError">>), "OSError", None)

\* shutil.move has returned: action.success = True; return True
MvReturn ==
    /\ mv.phase = "return"
    /\ MvEnd("returned", Succeeded(mv.action[1]), Ok, Some(TRUE))

\* hosts with a file of more than one chunk
MoveEnvironments ==
    { (<<>> :> DirNode) @@ (<<<<"w">>>> :> DirNode)
          @@ (<<<<"w">>, <<"a">>>> :> FileNode(<<"h", "i">>))
          @@ (<<<<"w">>, <<"c">>>> :> FileNode(<<"z">>)) }

InitMove == InitWith(Environments \cup MoveEnvironments)

NextMove ==
    \/ /\ mv.phase \in MoveEnded
       /\ \E path \in Paths, content \in Texts : WriteFile(path, content, FALSE)
    \/ \E source \in Paths, destination \in Paths, confirm \in BOOLEAN :
            MvRefused(source, destination, confirm)
    \/ \E source \in Paths, destination \in Paths, confirm \in BOOLEAN :
            MvBegin(source, destination, confirm)
    \/ MvRename
    \/ MvRenameCrossDevice
    \/ MvSameFile
    \/ MvOpen
    \/ MvCopyChunk
    \/ MvCopyStat
    \/ MvUnlink
    \/ MvUnlinkFails
    \/ MvCopyFails
    \/ MvReturn

SpecMove == InitMove /\ [][NextMove]_vars

---------------------------------------------------------------------------
(* A caller that asks for the history and keeps, and edits, the list it got *)

\* history = client.get_history()
CallGetHistory ==
    /\ returned' = GetHistoryList
    /\ UNCHANGED <<fs, clientVars, action_history, calls, last, fs_before,
                   concVars, cliVars, mv>>

\* the caller changes the list it holds to items; if that list is the object
\* self.action_history refers to, the history has changed with it
CallerEdits(items) ==
    /\ returned.held
    /\ returned.edits < MaxEdits
    /\ returned' = [returned EXCEPT !.items = items, !.edits = @ + 1]
    /\ action_history' = IF returned.shared THEN items ELSE action_history
    /\ UNCHANGED <<fs, clientVars, calls, last, fs_before, concVars, cliVars, mv>>

\* history.append(record) with a record of the caller's own
CallerAppend ==
    CallerEdits(Append(returned.items, ActionRecord("EXECUTE", <<"x">>, 0)))

\* history.pop()
CallerRemove ==
    /\ returned.items # <<>>
    /\ CallerEdits(SubSeq(returned.items, 1, Len(returned.items) - 1))

\* history.clear()
CallerClear ==
    CallerEdits(<<>>)

NextHist ==
    \/ \E path \in Paths, content \in Texts : WriteFile(path, content, FALSE)
    \/ \E path \in Paths : ReadFile(path)
    \/ CallGetHistory
    \/ CallerAppend
    \/ CallerRemove
    \/ CallerClear

SpecHist == Init /\ [][NextHist]_vars

---------------------------------------------------------------------------
(* The command line: execute_command makes a client for the workspace, runs *)
(* one command on it with the default confirm=True and turns what the       *)
(* client returned or raised into the exit code of the process.             *)

\* the classes an exception is an instance of (exceptions.py and builtins)
Bases(err) ==
    CASE err = "PathValidationError"
            -> {"PathValidationError", "SecurityError", "TinyFSError", "Exception"}
      [] err = "OperationCancelledError"
            -> {"OperationCancelledError", "TinyFSError", "Exception"}
      [] err \in {"FileNotFoundError", "IsADirectoryError", "NotADirectoryError",
                  "FileExistsError", "Error"}
            -> {err, "OSError", "Exception"}
      [] err = "SameFileError"
            -> {"SameFileError", "Error", "OSError", "Exception"}
      [] err = "UnicodeDecodeError"
            -> {"UnicodeDecodeError", "ValueError", "Exception"}
      [] OTHER -> {err, "Exception"}

\* the except clauses of execute_command, in their order
ExitCodeFor(err) ==
    IF "FileNotFoundError" \in Bases(err) THEN 1
    ELSE IF "SecurityError" \in Bases(err) THEN 2
    ELSE IF "OperationCancelledError" \in Bases(err) THEN 3
    ELSE IF "TinyFSError" \in Bases(err) THEN 4
    ELSE 5

Commands == {"read", "write", "list", "mkdir", "delete", "move", "copy",
             "exists", "info"}

NoCommand == ""

\* parsed command lines: the command, its paths, its content, its --type
Args(command, path, destination, content, type) ==
    [command |-> command, path |-> path, destination |-> destination,
     content |-> content, type |-> type]

CliArgs ==
    {Args(c, p, None, None, None) :
        c \in {"read", "list", "mkdir", "delete", "info"}, p \in Paths}
    \cup {Args("write", p, None, Some(<<"h">>), None) : p \in Paths}
    \cup {Args(c, p, Some(d), None, None) :
            c \in {"move", "copy"}, p \in Paths, d \in Paths}
    \cup {Args("exists", p, None, None, t) :
            p \in Paths, t \in {None, Some("file"), Some("directory")}}
    \cup {Args(NoCommand, PathDot, None, None, None)}

\* the client call of a command: what it gives
CommandCall(f, args, now) ==
    CASE args.command = "read" -> ReadFileBody(f, args.path, now)
      [] args.command = "write"
            -> WriteFileBody(f, args.path, args.content[1], TRUE, now)
      [] args.command = "list" -> ListDirectoryBody(f, args.path, now)
      [] args.command = "mkdir" -> CreateDirectoryBody(f, args.path, TRUE, now)
      [] args.command = "delete" -> DeleteFileBody(f, args.path, TRUE, now)
      [] args.command = "move"
            -> MoveFileBody(f, args.path, args.destination[1], TRUE, now)
      [] args.command = "copy"
            -> CopyFileBody(f, args.path, args.destination[1], TRUE, now)
      [] args.command = "exists"
            -> IF args.type = Some("file") THEN FileExistsBody(f, args.path)
               ELSE IF args.type = Some("directory")
               THEN DirectoryExistsBody(f, args.path)
               ELSE IF FileExistsBody(f, args.path).val = Some(TRUE)
               THEN FileExistsBody(f, args.path)
               ELSE DirectoryExistsBody(f, args.path)
      [] args.command = "info" -> GetFileInfoBody(f, args.path)
      [] OTHER -> Out(f, <<>>, Ok, None, FALSE)

\* execute_command: the call and the value returned
ExecuteCommandBody(f, args, now) ==
    LET out == CommandCall(f, args, now)
    IN  [out |-> out,
         code |-> IF out.res # Ok THEN ExitCodeFor(out.res)
                  ELSE IF args.command = "exists"
                  THEN (IF out.val = Some(TRUE) THEN 0 ELSE 1)
                  ELSE IF args.command = "info"
                  THEN (IF out.val = None THEN 1 ELSE 0)
                  ELSE IF args.command \in Commands THEN 0
                  ELSE 1]

\* one run of the command line with --auto-confirm as auto_confirm says; the
\* client it makes, and the history in it, end with the run
ExecuteCommand(args) ==
    /\ Len(calls) < MaxCalls
    /\ \E run \in {ExecuteCommandBody(fs, args, Now)} :
        /\ fs' = run.out.fs
        /\ exit_code' = Some(run.code)
        /\ last' = [op |-> args.command, path |-> Some(args.path),
                    dest |-> args.destination, content |-> args.content,
                    confirm |-> TRUE, res |-> run.out.res, val |-> run.out.val,
                    recs |-> run.out.recs, asked |-> run.out.asked]
    /\ calls' = Append(calls, args.command)
    /\ fs_before' = fs
    /\ UNCHANGED <<clientVars, action_history, concVars, stepVars>>

NextCli == \E args \in CliArgs : ExecuteCommand(args)

SpecCli == Init /\ [][NextCli]_vars

---------------------------------------------------------------------------
(* Properties *)

MutatingOps == {"write_file", "create_directory", "delete_file", "move_file",
                "copy_file"}
ReadingOps == {"read_file", "list_directory"}
ProbeOps == {"file_exists", "directory_exists", "get_file_info"}

\* the canonical form of a path is the workspace root or a descendant of it
Contained(path) == IsRelativeTo(Resolve(path), workspace_dir)

\* the canonical form lies under a sibling of the workspace root whose name
\* starts with the name of the root
UnderPrefixSibling(path) ==
    LET target == Resolve(path)
        n == Len(workspace_dir)
    IN  /\ Len(target) >= n
        /\ n >= 1
        /\ SubSeq(target, 1, n - 1) = SubSeq(workspace_dir, 1, n - 1)
        /\ target[n] # workspace_dir[n]
        /\ StartsWith(target[n], workspace_dir[n])

\* an argument of the last call is a path outside the workspace
LastCallOutside ==
    /\ last.op # "none"
    /\ \/ ~Contained(last.path[1])
       \/ last.dest # None /\ ~Contained(last.dest[1])

LastK(seq, k) == SubSeq(seq, Len(seq) - k + 1, Len(seq))

\* C1: a read, list, write, mkdir, delete, move or copy with a path whose
\* canonical form is outside the workspace raises PathValidationError and
\* leaves the filesystem as it was.
C1_OutsidePathRaisesAndTouchesNothing ==
    (last.op \in ReadingOps \cup MutatingOps /\ LastCallOutside)
        => (last.res = "PathValidationError" /\ fs = fs_before)

\* C2: _validate_path rejects, with PathValidationError and for must_exist
\* true and false alike, every path under a sibling directory whose name
\* merely starts with the name of the workspace root.
C2_PrefixSiblingRejected ==
    (last.op # "none" /\ UnderPrefixSibling(last.path[1]))
        => \A must_exist \in BOOLEAN :
              ValidatePath(fs_before, last.path[1], must_exist).err
                  = "PathValidationError"

\* C3: with auto_confirm off, a mutating call made with confirm=true whose
\* confirmation step returns false raises OperationCancelledError and leaves
\* the filesystem exactly as it was, missing parent directories included.
C3_CancelledCallChangesNothing ==
    (last.op \in MutatingOps /\ ~auto_confirm /\ last.confirm /\ last.asked
     /\ confirm_hook = "patched_false")
        => (last.res = "OperationCancelledError" /\ fs = fs_before)

\* C4: file_exists, directory_exists and get_file_info never raise; for a
\* path outside the workspace they give false, false and None, and
\* get_file_info gives None for a path in the workspace that does not exist.
C4_ProbesDegradeOutsideWorkspace ==
    (last.op \in ProbeOps)
        => /\ last.res = Ok
           /\ ~Contained(last.path[1])
                => last.val = (IF last.op = "get_file_info" THEN None ELSE Some(FALSE))
           /\ (last.op = "get_file_info" /\ Contained(last.path[1])
               /\ ~Exists(fs_before, Resolve(last.path[1])))
                => last.val = None

\* C5: in every reachable state the audit history holds at most history_size
\* records, for every configured capacity, 0 included.
C5_HistoryWithinCapacity ==
    Len(action_history) <= history_size

\* C6: after N mutating calls on a fresh client of capacity C, get_history()
\* returns exactly min(N, C) records: those of the last min(N, C) calls, in
\* call order.
C6_HistoryHoldsLastCalls ==
    (\A i \in 1..Len(calls) : calls[i] \in MutatingOps)
        => LET n == Len(calls)
               k == Min(n, history_size)
           IN  /\ Len(GetHistory) = k
               /\ \A i \in 1..Len(GetHistory) :
                     GetHistory[i].timestamp = n - k + i

\* C7: every invocation of a mutating operation hands exactly one record to
\* the audit log, whatever its outcome.
C7_MutatingCallLogsOneRecord ==
    (last.op \in MutatingOps) => Len(last.recs) = 1

\* C8: every read_file or list_directory call that raises leaves one failed
\* record, with the error's message, in the audit log.
C8_FailedReadLogsFailedRecord ==
    (last.op \in ReadingOps /\ last.res # Ok)
        => /\ Len(last.recs) = 1
           /\ ~last.recs[1].success
           /\ last.recs[1].error_message # None

Quiescent == \A t \in Threads : pc[t] = "idle"

\* C9: with concurrent callers, once all calls have returned the history
\* holds the records of the last min(N, C) calls that logged, none lost and
\* none twice, in every interleaving of the steps of _record_action.
C9_ConcurrentLogLosesNothing ==
    Quiescent
        => action_history = LastK(appended, Min(Len(appended), history_size))

\* C10: after a successful write_file(p, c), read_file(p) returns exactly c.
C10_WriteThenReadReturnsContent ==
    (last.op = "write_file" /\ last.res = Ok)
        => LET rd == ReadFileBody(fs, last.path[1], Now)
           IN  rd.res = Ok /\ rd.val = Some(last.content[1])

\* a move or copy between two paths of the workspace whose source is a
\* regular file has returned true
TransferDone ==
    /\ last.op \in {"move_file", "copy_file"}
    /\ last.res = Ok
    /\ Contained(last.path[1])
    /\ Contained(last.dest[1])
    /\ IsFile(fs_before, Resolve(last.path[1]))

\* what C11 promises of a move or copy that is done
TransferLeft ==
    LET src == Resolve(last.path[1])
        dst == Resolve(last.dest[1])
        k == fs_before[src].data
    IN  /\ IsFile(fs, dst) /\ fs[dst].data = k
        /\ last.op = "copy_file" => (IsFile(fs, src) /\ fs[src].data = k)
        /\ last.op = "move_file" => ~Exists(fs, src)

\* C11 as stated: for every regular file src and every destination dst in the
\* workspace, a successful copy_file leaves src and dst both with the content
\* of src, and a successful move_file leaves src absent and dst with that
\* content.
C11_TransferToAnyDestination ==
    TransferDone => TransferLeft

\* C11 amended: the same, for a destination that is not an existing directory
\* and, for move_file, is not the source itself.
C11_TransferToFileDestination ==
    (/\ TransferDone
     /\ ~IsDir(fs_before, Resolve(last.dest[1]))
     /\ last.op = "move_file" => Resolve(last.dest[1]) # Resolve(last.path[1]))
        => TransferLeft

\* C11 witness: a file was moved onto another file that existed
C11_MovedOntoExistingFile ==
    /\ TransferDone
    /\ last.op = "move_file"
    /\ IsFile(fs_before, Resolve(last.dest[1]))
    /\ Resolve(last.dest[1]) # Resolve(last.path[1])
    /\ ~Exists(fs, Resolve(last.path[1]))

\* the path holds a regular file with the content the move began with
HoldsMoved(path) == IsFile(fs, path) /\ fs[path].data = mv.k

\* a stepwise move is under way, or has just ended and no call was made since
MoveInSight ==
    \/ mv.phase \in MoveSteps
    \/ /\ mv.phase \in {"returned", "raised"}
       /\ last.op = "move_file"
       /\ Len(last.recs) = 1
       /\ last.recs[1].timestamp = mv.action[1].timestamp

\* C12: in every state of a move_file call, the states an interrupted or
\* failed move leaves behind included, the source still holds the content or
\* the destination holds all of it.
C12_MoveNeverLosesContent ==
    MoveInSight => (HoldsMoved(mv.src) \/ HoldsMoved(mv.dst))

\* C12 witness: the copy to another device failed part-way, the destination
\* holding a part of the content and the source all of it
C12_CopyFailedPartWay ==
    /\ mv.phase = "raised"
    /\ MoveInSight
    /\ IsFile(fs, mv.dst)
    /\ Len(fs[mv.dst].data) >= 1
    /\ Len(fs[mv.dst].data) < Len(mv.k)
    /\ HoldsMoved(mv.src)

\* the last call was create_directory(p), not declined at the confirmation
\* step, for a path p of the workspace that was absent or a directory
CreateDirectoryCase ==
    /\ last.op = "create_directory"
    /\ last.res # "OperationCancelledError"
    /\ Contained(last.path[1])
    /\ ~IsFile(fs_before, Resolve(last.path[1]))

\* create_directory(p) returned true, a second create_directory(p) returns
\* true and changes nothing, and p and its ancestors up to the workspace root
\* are directories
CreateDirectoryTwice ==
    LET target == Resolve(last.path[1])
        second == CreateDirectoryBody(fs, last.path[1], last.confirm, Now + 1)
    IN  /\ last.res = Ok /\ last.val = Some(TRUE)
        /\ second.res = Ok /\ second.val = Some(TRUE)
        /\ second.fs = fs
        /\ \A q \in Prefixes(target) :
              Len(q) >= Len(workspace_dir) => IsDir(fs, q)
        /\ \A q \in DOMAIN fs_before : Exists(fs, q) /\ fs[q] = fs_before[q]

\* C13 as stated: for every path p of the workspace that is absent or already
\* a directory, two consecutive create_directory(p) calls both return true and
\* leave p and its ancestors directories, the second changing nothing.
C13_CreateDirectoryIdempotent ==
    CreateDirectoryCase => CreateDirectoryTwice

\* C13 amended: the same, for a path none of whose ancestors is a regular file.
C13_CreateDirectoryIdempotentUnderDirectories ==
    (/\ CreateDirectoryCase
     /\ \A q \in Prefixes(Resolve(last.path[1])) : ~IsFile(fs_before, q))
        => CreateDirectoryTwice

\* C13 witness: a directory was created together with its missing parent
C13_CreatedNestedDirectory ==
    /\ CreateDirectoryCase
    /\ last.res = Ok
    /\ ~Exists(fs_before, Parent(Resolve(last.path[1])))
    /\ IsDir(fs, Resolve(last.path[1]))
    /\ IsDir(fs, Parent(Resolve(last.path[1])))

\* C14: read_file(p) returns the full text of p when p is a regular file of
\* the workspace (one that holds text), and otherwise raises, in this order,
\* PathValidationError when p is outside the workspace, FileNotFoundError
\* when p is absent, IsADirectoryError when p is a directory.
C14_ReadFileErrorOrder ==
    (last.op = "read_file")
        => LET target == Resolve(last.path[1])
           IN  IF ~Contained(last.path[1])
               THEN last.res = "PathValidationError"
               ELSE IF ~Exists(fs_before, target)
               THEN last.res = "FileNotFoundError"
               ELSE IF IsDir(fs_before, target)
               THEN last.res = "IsADirectoryError"
               ELSE Decodable(fs_before[target].data)
                        => /\ last.res = Ok
                           /\ last.val = Some(ReadTranslate(fs_before[target].data))

\* the filesystem differs from the one before the last call at most at path
SameExceptAt(path) ==
    /\ DOMAIN fs \ {path} = DOMAIN fs_before \ {path}
    /\ \A q \in DOMAIN fs \ {path} : fs[q] = fs_before[q]

\* C15: delete_file(p) for a path of the workspace raises IsADirectoryError
\* on a directory, the workspace root included, and leaves everything as it
\* was; raises FileNotFoundError on an absent path; and on a regular file,
\* once confirmed, returns true with p absent and every other file unchanged.
C15_DeleteFileOnlyRemovesFiles ==
    (last.op = "delete_file" /\ Contained(last.path[1]))
        => LET target == Resolve(last.path[1])
           IN  /\ IsDir(fs_before, target)
                    => (last.res = "IsADirectoryError" /\ fs = fs_before)
               /\ ~Exists(fs_before, target)
                    => (last.res = "FileNotFoundError" /\ fs = fs_before)
               /\ (IsFile(fs_before, target) /\ last.res # "OperationCancelledError")
                    => /\ last.res = Ok /\ last.val = Some(TRUE)
                       /\ ~Exists(fs, target)
                       /\ SameExceptAt(target)

\* C15 witness: a regular file of the workspace was deleted
C15_DeletedRegularFile ==
    /\ last.op = "delete_file"
    /\ Contained(last.path[1])
    /\ IsFile(fs_before, Resolve(last.path[1]))
    /\ last.res = Ok
    /\ ~Exists(fs, Resolve(last.path[1]))

\* C16: list_directory(p) on a directory of the workspace returns one FileInfo
\* for each immediate child and none for anything else, is_directory true and
\* size null for directories, size non-null for files; on a regular file it
\* raises NotADirectoryError and on an absent path FileNotFoundError.
C16_ListDirectoryImmediateChildren ==
    (last.op = "list_directory" /\ Contained(last.path[1]))
        => LET target == Resolve(last.path[1])
           IN  /\ ~Exists(fs_before, target) => last.res = "FileNotFoundError"
               /\ IsFile(fs_before, target) => last.res = "NotADirectoryError"
               /\ IsDir(fs_before, target)
                    => /\ last.res = Ok
                       /\ last.val # None
                       /\ \A q \in DOMAIN fs_before :
                             (Len(q) = Len(target) + 1 /\ Parent(q) = target)
                                => Cardinality({i \in last.val[1] : i.name = Name(q)}) = 1
                       /\ \A i \in last.val[1] :
                             LET q == Append(target, i.name)
                             IN  /\ Exists(fs_before, q)
                                 /\ i.is_directory = IsDir(fs_before, q)
                                 /\ i.is_directory => i.size = None
                                 /\ ~i.is_directory => i.size # None

\* C16 witness: the listed directory has a child directory that is not empty
C16_ListedAboveNestedFile ==
    /\ last.op = "list_directory"
    /\ last.res = Ok
    /\ Contained(last.path[1])
    /\ \E i \in last.val[1] :
          /\ i.is_directory
          /\ \E q \in DOMAIN fs_before :
                Len(q) = Len(Resolve(last.path[1])) + 2
                /\ Parent(q) = Append(Resolve(last.path[1]), i.name)

\* nothing is in the workspace
EmptyWorkspace(f) ==
    \A q \in DOMAIN f : ~(Len(q) > Len(workspace_dir) /\ IsRelativeTo(q, workspace_dir))

\* the last call was write_file("a/b", "h") on an empty workspace and was not
\* declined at the confirmation step
WriteNestedCase ==
    /\ last.op = "write_file"
    /\ last.path = Some(PathAB)
    /\ last.content = Some(<<"h">>)
    /\ last.res # "OperationCancelledError"
    /\ EmptyWorkspace(fs_before)

\* C17: a successful write_file(p, c) in the workspace leaves p a regular
\* file, every ancestor of p in the workspace a directory, and nothing else
\* new; write_file("a/b", "h") on an empty workspace succeeds, leaves
\* directory a and file a/b with content "h", and list_directory(".") then
\* returns exactly one FileInfo: name "a", is_directory true, size null.
C17_WriteCreatesMissingParents ==
    /\ (last.op = "write_file" /\ last.res = Ok /\ Contained(last.path[1]))
          => LET target == Resolve(last.path[1])
             IN  /\ IsFile(fs, target)
                 /\ \A q \in Prefixes(target) \ {target} : IsDir(fs, q)
                 /\ \A q \in DOMAIN fs \ DOMAIN fs_before : q \in Prefixes(target)
                 /\ \A q \in DOMAIN fs_before \ {target} :
                       Exists(fs, q) /\ fs[q] = fs_before[q]
    /\ WriteNestedCase
          => LET listed == ListDirectoryBody(fs, PathDot, Now)
                 rd == ReadFileBody(fs, PathAB, Now)
             IN  /\ last.res = Ok
                 /\ IsDir(fs, Append(workspace_dir, <<"a">>))
                 /\ rd.res = Ok /\ rd.val = Some(<<"h">>)
                 /\ listed.res = Ok
                 /\ Cardinality(listed.val[1]) = 1
                 /\ \A i \in listed.val[1] :
                       i.name = <<"a">> /\ i.is_directory /\ i.size = None

\* C17 witness: write_file("a/b", "h") succeeded on an empty workspace
C17_WroteBelowMissingParent ==
    /\ WriteNestedCase
    /\ last.res = Ok
    /\ ~Exists(fs_before, Append(workspace_dir, <<"a">>))
    /\ IsFile(fs, Resolve(PathAB))

\* C18: get_history() returns a copy: a step in which the caller appends to,
\* removes from or clears the list it was given leaves the history, and so
\* what a later get_history() returns, as it was; and a step in which an
\* operation records an action, evicting or not, leaves the list as it was.
C18_HistoryIsDefensiveCopy ==
    [][/\ returned'.edits # returned.edits => action_history' = action_history
       /\ (returned.held /\ calls' # calls) => returned'.items = returned.items]_vars

\* C18 witness: the caller holds the list of an earlier get_history, untouched,
\* and the record in it has since been evicted from the history
C18_HeldListOutlivedEviction ==
    /\ returned.held
    /\ returned.edits = 0
    /\ Len(returned.items) = 1
    /\ Len(action_history) = 1
    /\ returned.items[1].timestamp < action_history[1].timestamp

\* the type mismatches of the error taxonomy
TypeMismatches == {"IsADirectoryError", "NotADirectoryError"}

\* C19: execute_command returns 0 on success; 1 when the path is not found,
\* for a negative exists or info answer and for a missing command; 2 for a
\* security error; 3 when the operation was cancelled; 4 for the other
\* filesystem errors the client raises, IsADirectoryError and
\* NotADirectoryError among them; 5 only for errors outside that taxonomy.
C19_ExitCodeTaxonomy ==
    (exit_code # None)
        => LET code == exit_code[1]
           IN  IF last.op = NoCommand THEN code = 1
               ELSE IF last.res = Ok
               THEN code = (IF \/ last.op = "exists" /\ last.val # Some(TRUE)
                               \/ last.op = "info" /\ last.val = None
                            THEN 1 ELSE 0)
               ELSE IF last.res = "FileNotFoundError" THEN code = 1
               ELSE IF last.res = "PathValidationError" THEN code = 2
               ELSE IF last.res = "OperationCancelledError" THEN code = 3
               ELSE IF last.res \in TypeMismatches THEN code = 4
               ELSE code \in {4, 5}

\* the path an operation's record carries: the path relative to the
\* workspace, or "<source> -> <destination>" for a move or copy
AttemptedPath ==
    LET rel(path) == StrRel(RelativeTo(Resolve(path)).rel)
    IN  IF last.dest = None THEN rel(last.path[1])
        ELSE rel(last.path[1]) \o <<" ", "-", ">", " ">> \o rel(last.dest[1])

\* C20: when the confirmation step declines a mutating call, the call raises
\* OperationCancelledError and writes one record, with success false,
\* user_approved false, an error message, and the action type and path of
\* the operation attempted.
C20_DeclinedCallLogsFailedRecord ==
    (last.op \in MutatingOps /\ last.asked /\ ~RequestConfirmation)
        => /\ last.res = "OperationCancelledError"
           /\ Len(last.recs) = 1
           /\ ~last.recs[1].success
           /\ ~last.recs[1].user_approved
           /\ last.recs[1].error_message # None
           /\ last.recs[1].action_type = "WRITE"
           /\ last.recs[1].path = AttemptedPath
           /\ history_size >= 1 => action_history[Len(action_history)] = last.recs[1]

\* C20 witness: the deletion of a file of the workspace was declined
C20_DeclinedDelete ==
    /\ last.op = "delete_file"
    /\ last.asked
    /\ ~RequestConfirmation
    /\ last.res = "OperationCancelledError"
    /\ IsFile(fs, Resolve(last.path[1]))
    /\ Len(last.recs) = 1

\* the errors of validation: containment, existence, type
ValidationErrors == {"PathValidationError", "FileNotFoundError",
                     "IsADirectoryError", "NotADirectoryError"}

\* the last call was delete_file, move_file or copy_file and its source was
\* absent or a directory
SourceAbsentOrDirectory ==
    /\ last.op \in {"delete_file", "move_file", "copy_file"}
    /\ ~IsFile(fs_before, Resolve(last.path[1]))

\* C21: a mutating call whose path is outside the workspace, or whose source
\* is absent or a directory, never consults the confirmation step, and the
\* error it raises is the validation error, never OperationCancelledError.
C21_ValidationPrecedesConfirmation ==
    (last.op \in MutatingOps /\ (LastCallOutside \/ SourceAbsentOrDirectory))
        => /\ ~last.asked
           /\ last.res \in ValidationErrors

\* C22: the record of a successful operation has success true and a path
\* relative to the workspace: READ and the target's relative path for
\* read_file and list_directory, WRITE and the relative path for write_file,
\* create_directory and delete_file, WRITE and "<src> -> <dest>" for
\* move_file and copy_file.
C22_SuccessfulCallRecord ==
    (last.op \in ReadingOps \cup MutatingOps /\ last.res = Ok)
        => /\ Len(last.recs) = 1
           /\ last.recs[1].success
           /\ last.recs[1].error_message = None
           /\ last.recs[1].action_type
                 = (IF last.op \in ReadingOps THEN "READ" ELSE "WRITE")
           /\ Contained(last.path[1])
           /\ last.dest # None => Contained(last.dest[1])
           /\ last.recs[1].path = AttemptedPath
           /\ Head(last.recs[1].path) # SLASH
           /\ history_size >= 1 => action_history[Len(action_history)] = last.recs[1]

\* C22 witness: a file was copied to another name and the call recorded
C22_RecordedCopy ==
    /\ last.op = "copy_file"
    /\ last.res = Ok
    /\ Resolve(last.path[1]) # Resolve(last.dest[1])
    /\ Len(last.recs) = 1
    /\ last.recs[1].path = AttemptedPath

\* the filesystem without what is outside the workspace: the root, its
\* ancestors and what is below it
Within(f) ==
    [q \in {x \in DOMAIN f : \/ IsRelativeTo(x, workspace_dir)
                             \/ IsRelativeTo(workspace_dir, x)} |-> f[q]]

\* what may lie outside the workspace: nothing, a file, a sibling directory
\* with a file, a sibling that is a file
OutsideParts ==
    { <<>>,
      (<<<<"e">>>> :> FileNode(<<"s">>)),
      (<<<<"w", "x">>>> :> DirNode) @@ (<<<<"w", "x">>, <<"b">>>> :> FileNode(<<"s">>)),
      (<<<<"w", "x">>>> :> FileNode(<<"t">>)) }

\* the filesystems that differ from f only outside the workspace
OutsideWorlds(f) == {Within(f) @@ o : o \in OutsideParts}

\* what the last call, a read or a probe, gives on filesystem f
Observed(f) ==
    LET path == last.path[1]
        out == CASE last.op = "read_file" -> ReadFileBody(f, path, Len(calls))
                 [] last.op = "list_directory" -> ListDirectoryBody(f, path, Len(calls))
                 [] last.op = "file_exists" -> FileExistsBody(f, path)
                 [] last.op = "directory_exists" -> DirectoryExistsBody(f, path)
                 [] last.op = "get_file_info" -> GetFileInfoBody(f, path)
    IN  <<out.res, out.val>>

\* C23: for two filesystems that differ only outside the workspace root,
\* read_file, list_directory, file_exists, directory_exists and get_file_info
\* give the same result or error for every path outside the workspace.
C23_OutsideIsNotObservable ==
    (last.op \in ReadingOps \cup ProbeOps /\ ~Contained(last.path[1]))
        => \A g \in OutsideWorlds(fs_before) : Observed(g) = <<last.res, last.val>>

\* C24: a record has user_approved true only if its call consulted the
\* confirmation step and the step returned true; a record of a call made
\* with auto_confirm on, or with confirm=false, has user_approved false,
\* also when the operation succeeded.
C24_ApprovedOnlyWhenAskedAndConfirmed ==
    /\ \A i \in DOMAIN last.recs :
          /\ last.recs[i].user_approved
                => (last.asked /\ ~auto_confirm /\ confirm_hook # "patched_false")
          /\ (auto_confirm \/ ~last.confirm) => ~last.recs[i].user_approved
    /\ \A i \in DOMAIN action_history :
          action_history[i].user_approved
              => (~auto_confirm /\ confirm_hook # "patched_false")

\* a confirmed call was logged as approved, and the call after it, made
\* with confirm=false, succeeded and was logged as not approved
C24_BypassAfterApproval ==
    /\ last.op \in MutatingOps /\ last.res = Ok
    /\ ~last.confirm /\ ~auto_confirm
    /\ Len(last.recs) = 1 /\ ~last.recs[1].user_approved
    /\ \E i \in DOMAIN action_history : action_history[i].user_approved

\* C25: with _request_confirmation as shipped, the confirmation step returns
\* true in both modes, no mutating call raises OperationCancelledError, and
\* no record with error_message "Operation cancelled by user" is written.
C25_ShippedConfirmationNeverDeclines ==
    confirm_hook = "shipped"
        => /\ RequestConfirmation
           /\ last.res # "OperationCancelledError"
           /\ \A i \in DOMAIN last.recs :
                 last.recs[i].error_message # Some(CancelledMessage)
           /\ \A i \in DOMAIN action_history :
                 action_history[i].error_message # Some(CancelledMessage)

\* the shipped step was consulted with auto_confirm off and the call went on
C25_ShippedStepConsulted ==
    /\ confirm_hook = "shipped" /\ ~auto_confirm
    /\ last.op \in MutatingOps /\ last.asked /\ last.res = Ok
    /\ Len(last.recs) = 1 /\ last.recs[1].user_approved

\* C26: a get_history call that runs concurrently with operations of other
\* callers never returns more than history_size records.
C26_ReaderNeverSeesUntrimmedHistory ==
    returned.held => Len(returned.items) <= history_size

\* C27: a call that raises a validation error (PathValidationError,
\* FileNotFoundError, IsADirectoryError, NotADirectoryError) leaves the
\* filesystem as it was before the call; move_file and copy_file with an
\* out-of-workspace destination or a missing source create no destination
\* parent directories.
C27_ValidationErrorLeavesFilesystem ==
    /\ last.res \in ValidationErrors => fs = fs_before
    /\ (/\ last.op \in {"move_file", "copy_file"}
        /\ \/ ~Contained(last.dest[1])
           \/ ~Exists(fs_before, Resolve(last.path[1])))
          => fs = fs_before

\* a transfer from a missing source to a destination whose parent directory
\* is missing too was refused, and the parent is still missing
C27_RefusedTransferBelowMissingParent ==
    /\ last.op \in {"move_file", "copy_file"}
    /\ last.res = "FileNotFoundError"
    /\ Contained(last.dest[1])
    /\ ~Exists(fs_before, Parent(Resolve(last.dest[1])))
    /\ ~Exists(fs, Parent(Resolve(last.dest[1])))

\* C28: file_exists, directory_exists and get_file_info are pure probes: for
\* every path a call appends no record to the audit log, never consults the
\* confirmation step and changes nothing in the filesystem.
C28_ProbesArePure ==
    [][(calls' # calls /\ last'.op \in ProbeOps)
          => /\ action_history' = action_history
             /\ fs' = fs
             /\ last'.recs = <<>>
             /\ ~last'.asked]_vars

\* a probe of a path outside the workspace ran on a client whose log is not
\* empty and whose confirmation step is in force
C28_ProbedOutsideWithLog ==
    /\ last.op \in ProbeOps
    /\ ~Contained(last.path[1])
    /\ action_history # <<>>
    /\ ~auto_confirm

\* C29: no client operation removes a directory, so the workspace root
\* exists in every reachable state, and workspace_dir, auto_confirm and
\* history_size of the client are never changed.
C29_DirectoriesOnlyGrow ==
    /\ []IsDir(fs, workspace_dir)
    /\ [][/\ \A p \in DOMAIN fs : IsDir(fs, p) => IsDir(fs', p)
          /\ workspace_dir' = workspace_dir
          /\ auto_confirm' = auto_confirm
          /\ history_size' = history_size]_vars

\* a file was moved to a destination that is a directory: it went into the
\* directory, which is still there
C29_MovedIntoDirectory ==
    /\ last.op = "move_file" /\ last.res = Ok
    /\ IsDir(fs_before, Resolve(last.dest[1]))
    /\ IsDir(fs, Resolve(last.dest[1]))
    /\ IsFile(fs, Append(Resolve(last.dest[1]), Name(Resolve(last.path[1]))))

\* a call of create_directory on an existing regular file, or of write_file
\* on an existing directory, inside the workspace, that the confirmation
\* step lets through
TypeConflictCase ==
    /\ last.op \in {"create_directory", "write_file"}
    /\ Contained(last.path[1])
    /\ IF last.op = "create_directory" THEN IsFile(fs_before, Resolve(last.path[1]))
       ELSE IsDir(fs_before, Resolve(last.path[1]))
    /\ (~last.confirm \/ auto_confirm \/ confirm_hook # "patched_false")

\* C30: create_directory on an existing regular file and write_file to an
\* existing directory, past validation and confirmation, re-raise the OS
\* error, leave the existing file or directory unchanged, and append exactly
\* one ActionRecord with success=false and the error's message.
C30_TypeConflictFailsInOsStep ==
    TypeConflictCase
        => /\ last.res = (IF last.op = "create_directory" THEN "FileExistsError"
                          ELSE "IsADirectoryError")
           /\ fs = fs_before
           /\ Len(last.recs) = 1
           /\ ~last.recs[1].success
           /\ last.recs[1].error_message = Some(<<last.res>>)
           /\ action_history # <<>>
           /\ action_history[Len(action_history)] = last.recs[1]

\* create_directory on an existing file was confirmed by the user and failed
C30_ConfirmedMkdirOverFile ==
    /\ last.op = "create_directory"
    /\ last.res = "FileExistsError"
    /\ last.asked
    /\ Len(last.recs) = 1 /\ last.recs[1].user_approved /\ ~last.recs[1].success
    /\ IsFile(fs, Resolve(last.path[1]))

===========================================================================
